---- MODULE Spec2Model ----
(***************************************************************************)
(* A model of oumi's RemoteInferenceEngine                                 *)
(* (src/oumi/inference/remote_inference_engine.py).                        *)
(*                                                                         *)
(*   SpecOnline   infer_online -> _infer -> _query_api: one unit per input *)
(*                conversation, admitted through an asyncio                *)
(*                BoundedSemaphore, retried inside the semaphore, gathered *)
(*                by tqdm.gather.                                          *)
(*   SpecResults  get_batch_results -> _get_batch_results_with_mapping:    *)
(*                status fetch, the three checks, the file download and    *)
(*                the positional decode, against a remote batch job that   *)
(*                moves on its own.                                        *)
(***************************************************************************)
EXTENDS Integers, Sequences, FiniteSets, TLC

(***************************************************************************)
(* Bounds of the model.                                                    *)
(***************************************************************************)
\* The longest input list given to infer_online.
MaxConvs == 2
\* The most conversations given to get_batch_results and to infer_batch.
MaxOriginals == 2
\* The largest `limit` given to list_batches and list_files, and the most
\* items the remote service lists.
MaxLimit == 2
\* The longest message list given to the encoder on its own.
MaxMessages == 3
\* The largest RemoteParams.num_workers tried (the smallest is 1).
MaxWorkers == 2
\* The largest RemoteParams.max_retries tried (the smallest is 0).
MaxRetries == 1

VARIABLES
    \* ---- infer_online ----
    num_workers,    \* RemoteParams.num_workers
    max_retries,    \* RemoteParams.max_retries
    output_path,    \* whether InferenceConfig.output_path is set
    input,          \* the list of conversations given to infer_online
    semaphore,      \* the value of the BoundedSemaphore of _infer
    pc,             \* pc[u]: where unit u (one _query_api coroutine) stands
    attempts,       \* attempts[u]: how many session.post calls u has issued
    statuses,       \* statuses[u]: the statuses those calls came back with
    result,         \* result[u]: the local `result` of unit u (NoValue before)
    err,            \* err[u]: the exception unit u raised ("none" before)
    scratch,        \* the conversations written to the scratch file, in order
    completed,      \* the finished units, in completion order
    consumed,       \* how many of `completed` tqdm.gather has awaited
    run,            \* "running", "returned" or "failed": infer_online itself
    runErr,         \* the exception infer_online raised ("none" before)
    conversations,  \* the list infer_online returned (NoValue before)
    finalOutput,    \* what _save_conversations wrote to output_path
    \* ---- get_batch_results ----
    job,            \* the remote batch job, as GET /batches/{id} reports it
    originals,      \* the `conversations` argument of get_batch_results
    gr_pc,          \* where the call stands: "idle", "status", "error_file",
                    \* "output_file" or "done"
    gr_fetched,     \* the status payload this call fetched (NoValue before)
    gr_requests,    \* the HTTP requests this call has issued, in order
    gr_responses,   \* the responses it has received, in order
    gr_document,    \* the output document it downloaded (NoValue before)
    gr_outcome,     \* "none", "raised" or "returned"
    gr_error,       \* the exception raised (NoError before)
    gr_value,       \* the list returned (NoValue before)
    \* ---- the other public operations ----
    op,             \* the public operation under way: its name, whether
                    \* remote_params was given, where it stands, the HTTP
                    \* requests it issued, the responses it received, and
                    \* how it ended
    cb_conversations, \* the `conversations` argument of infer_batch
    batch_requests, \* the list _create_batch built (NoValue before)
    tmp_file,       \* the temporary .jsonl file of _upload_batch_file:
                    \* "none", "exists" or "deleted"
    remote_jobs,    \* the ids of the jobs the remote service was made to
                    \* create
    \* ---- the encoder and the decoder on their own ----
    codec           \* the last call of one of the pure functions: its
                    \* name, its arguments and what came out

onlineVars == <<num_workers, max_retries, output_path, input, semaphore, pc,
                attempts, statuses, result, err, scratch, completed, consumed, run,
                runErr, conversations, finalOutput>>

opVars == <<op, cb_conversations, batch_requests, tmp_file, remote_jobs>>

batchVars == <<job, originals, gr_pc, gr_fetched, gr_requests, gr_responses,
               gr_document, gr_outcome, gr_error, gr_value, opVars>>

vars == <<onlineVars, batchVars, codec>>

\* Python's None, and a unit's `result` before it is assigned.
NoValue == [none |-> TRUE]

\* No exception.
NoError == [type |-> "none", msg |-> "", carries |-> ""]

\* An absent (null or missing) file id of a status payload.
NoFileId == "null"

\* No public operation called yet.
NoOperation ==
    [name |-> "none", params |-> TRUE, limit |-> 0, pc |-> "idle",
     requests |-> <<>>, responses |-> <<>>,
     outcome |-> "none", error |-> NoError, value |-> NoValue]

\* No pure function called yet.
NoCall == [fn |-> "none"]

OpIdle ==
    /\ codec = NoCall
    /\ op = NoOperation
    /\ cb_conversations = <<>>
    /\ batch_requests = NoValue
    /\ tmp_file = "none"
    /\ remote_jobs = {}

\* A batch job just created, and no get_batch_results call under way.
BatchIdle ==
    /\ OpIdle
    /\ job = [status |-> "validating", failed_requests |-> 0,
              output_file_id |-> NoFileId, error_file_id |-> NoFileId]
    /\ originals = <<>>
    /\ gr_pc = "idle"
    /\ gr_fetched = NoValue
    /\ gr_requests = <<>>
    /\ gr_responses = <<>>
    /\ gr_document = NoValue
    /\ gr_outcome = "none"
    /\ gr_error = NoError
    /\ gr_value = NoValue

(***************************************************************************)
(* Conversations and messages (oumi.core.types.conversation, used through  *)
(* the fields the engine reads: role, type, content, binary).              *)
(***************************************************************************)
\* A message's content is kept as a record, so that a prompt's text and a
\* completion's text (tagged with the request it answers) are comparable.
Text(s) == [text |-> s]

TextMessage(role, content) ==
    [role |-> role, type |-> "text", content |-> content, binary |-> FALSE]

ImageUrlMessage(role, url) ==
    [role |-> role, type |-> "image_url", content |-> url, binary |-> FALSE]

\* The conversations infer_online is tried on: a plain text prompt, and a
\* prompt that refers to an image by URL.
ConvShapes ==
    { <<TextMessage("user", Text("q"))>>,
      <<TextMessage("user", Text("q")),
        ImageUrlMessage("user", Text("http://img"))>> }

Conversation(id, messages) ==
    [conversation_id |-> id, metadata |-> "meta", messages |-> messages]

Units == 1..Len(input)

(***************************************************************************)
(* Message Encoder.                                                        *)
(***************************************************************************)
\* Message.is_image(): the three image types of oumi's Type enum.
IsImage(message) == message.type \in {"image_path", "image_url", "image_binary"}

\* base64encode_image_bytes(message, add_mime_prefix=True): a data URI.
Base64DataUri(message) == [scheme |-> "data", payload |-> message.content]

\* _get_content_for_message. A raise is the value [raises |-> <exception>].
\* The last return builds the Python set {message.content}, not a dict
\* {"url": ...}: the value [set |-> {...}].
GetContentForMessage(message) ==
    IF message.type = "text"
    THEN [type |-> "text", text |-> message.content]
    ELSE IF ~IsImage(message)
    THEN [raises |-> "ValueError"]
    ELSE IF message.binary \/ message.type # "image_url"
         \* bytes at hand, or loaded by load_image_bytes_to_message
    THEN [type |-> "image_url", image_url |-> [url |-> Base64DataUri(message)]]
    ELSE [type |-> "image_url", image_url |-> [set |-> {message.content}]]

\* The first positions of the maximal runs of adjacent messages of one
\* role, the start of the k-th run, and its last position.
RunStarts(messages) ==
    { i \in 1..Len(messages) : i = 1 \/ messages[i].role # messages[i - 1].role }

RunStart(messages, k) ==
    CHOOSE i \in RunStarts(messages) :
        Cardinality({ j \in RunStarts(messages) : j <= i }) = k

RunLast(messages, k) ==
    IF k = Cardinality(RunStarts(messages))
    THEN Len(messages)
    ELSE RunStart(messages, k + 1) - 1

\* The inner loop of _get_list_of_message_json_dicts that moves end_idx
\* over the messages of the role of messages[idx] (positions count from 1,
\* end_idx is the first position after the group).
RECURSIVE GroupEnd(_, _, _)
GroupEnd(messages, idx, end_idx) ==
    IF end_idx <= Len(messages) /\ messages[idx].role = messages[end_idx].role
    THEN GroupEnd(messages, idx, end_idx + 1)
    ELSE end_idx

\* A test that looks at the first message of the group only.
EmitsBareString_AnyText(group_size, message) == message.type = "text"

\* `if group_size == 1 and messages[idx].is_text()`.
EmitsBareString(group_size, message) == group_size = 1 /\ message.type = "text"

\* _get_list_of_message_json_dicts from position idx on, `acc` holding
\* `result`. A content that is a primitive string is [string |-> ...], a
\* content list is [list |-> ...]; a raise is [raises |-> <exception>].
RECURSIVE GetListOfMessageJsonDicts(_, _, _, _)
GetListOfMessageJsonDicts(messages, group_adjacent_same_role_turns, idx, acc) ==
    IF idx > Len(messages)
    THEN [list |-> acc]
    ELSE LET end_idx == IF group_adjacent_same_role_turns
                        THEN GroupEnd(messages, idx, idx + 1)
                        ELSE idx + 1
             group_size == end_idx - idx
             content_list == [j \in 1..group_size |->
                                 GetContentForMessage(messages[idx + j - 1])]
         IN  IF EmitsBareString(group_size, messages[idx])
             THEN GetListOfMessageJsonDicts(
                      messages, group_adjacent_same_role_turns, end_idx,
                      Append(acc, [role |-> messages[idx].role,
                                   content |-> [string |-> messages[idx].content]]))
             ELSE IF \E j \in 1..group_size : "raises" \in DOMAIN content_list[j]
             THEN [raises |-> "ValueError"]
             ELSE GetListOfMessageJsonDicts(
                      messages, group_adjacent_same_role_turns, end_idx,
                      Append(acc, [role |-> messages[idx].role,
                                   content |-> [list |-> content_list]]))

\* A "messages" field with one wire turn per run of adjacent messages of
\* one role.
ApiMessages_Grouped(conversation) ==
    [k \in 1..Cardinality(RunStarts(conversation.messages)) |->
        [content |-> [j \in 1..(RunLast(conversation.messages, k)
                                 - RunStart(conversation.messages, k) + 1) |->
                         GetContentForMessage(
                             conversation.messages[RunStart(conversation.messages, k)
                                                   + j - 1])],
         role |-> conversation.messages[RunStart(conversation.messages, k)].role]]

\* The "messages" field of _convert_conversation_to_api_input: one wire turn
\* per message, its content a one-element list.
ApiMessages(conversation) ==
    [i \in 1..Len(conversation.messages) |->
        [content |-> <<GetContentForMessage(conversation.messages[i])>>,
         role |-> conversation.messages[i].role]]

\* _convert_conversation_to_api_input without guided decoding.
ConvertConversationToApiInput(conversation) ==
    IF \E i \in 1..Len(conversation.messages) :
           "raises" \in DOMAIN GetContentForMessage(conversation.messages[i])
    THEN [raises |-> "ValueError"]
    ELSE [model |-> "model", messages |-> ApiMessages(conversation), n |-> 1]

\* The tokens of JSON punctuation.
JsonPunctuation == {"{", "}", ":", ","}

\* json.loads on a text given as its tokens: an object of string members
\* becomes a dict (a repeated key keeps its last value), the text 3 the
\* number 3, anything else raises.
JsonLoads(tokens) ==
    IF tokens = <<"3">>
    THEN [kind |-> "int", value |-> 3]
    ELSE IF Len(tokens) < 2 \/ tokens[1] # "{" \/ tokens[Len(tokens)] # "}"
    THEN [raises |-> "JSONDecodeError"]
    ELSE LET inner == SubSeq(tokens, 2, Len(tokens) - 1)
             names == { i \in 1..Len(inner) : i % 4 = 1 }
         IN  IF /\ Len(inner) # 0 => Len(inner) % 4 = 3
                /\ \A i \in 1..Len(inner) :
                      CASE i % 4 = 2 -> inner[i] = ":"
                        [] i % 4 = 0 -> inner[i] = ","
                        [] OTHER     -> inner[i] \notin JsonPunctuation
             THEN [kind |-> "dict",
                   map |-> [key \in { inner[i] : i \in names } |->
                              LET last == CHOOSE i \in names :
                                            /\ inner[i] = key
                                            /\ \A j \in names :
                                                  inner[j] = key => j <= i
                              IN  inner[last + 2]]]
             ELSE [raises |-> "JSONDecodeError"]

\* A resolution that takes a schema of any type as it comes.
ResponseFormat_AnyType(guided_decoding) ==
    [type |-> "json_schema",
     json_schema |-> [name |-> "Response", schema |-> guided_decoding.json]]

\* The guided-decoding branch of _convert_conversation_to_api_input: the
\* "response_format" entry for generation_params.guided_decoding.
ResponseFormat(guided_decoding) ==
    LET json_schema == guided_decoding.json
    IN  IF json_schema = NoValue
        THEN [raises |-> "ValueError"]
        ELSE IF json_schema.kind = "pydantic"
        THEN [type |-> "json_schema",
              json_schema |-> [name |-> json_schema.name,
                               schema |-> json_schema.schema]]
        ELSE IF json_schema.kind = "dict"
        THEN [type |-> "json_schema",
              json_schema |-> [name |-> "Response", schema |-> json_schema]]
        ELSE IF json_schema.kind = "str"
        THEN LET schema_value == JsonLoads(json_schema.tokens)
             IN  IF "raises" \in DOMAIN schema_value
                 THEN schema_value
                 ELSE [type |-> "json_schema",
                       json_schema |-> [name |-> "Response",
                                        schema |-> schema_value]]
        ELSE [raises |-> "ValueError"]

\* _convert_conversation_to_api_input with generation_params.guided_decoding
\* (NoValue: none asked for).
ConvertConversationWithGuidedDecoding(conversation, guided_decoding) ==
    LET api_input == ConvertConversationToApiInput(conversation)
    IN  IF "raises" \in DOMAIN api_input \/ guided_decoding = NoValue
        THEN api_input
        ELSE LET response_format == ResponseFormat(guided_decoding)
             IN  IF "raises" \in DOMAIN response_format
                 THEN response_format
                 ELSE [model |-> api_input.model,
                       messages |-> api_input.messages,
                       n |-> api_input.n,
                       response_format |-> response_format]

\* Whether json.dumps accepts the request (session.post(json=api_input)
\* serialises it before anything is sent): a Python set is not serialisable.
JsonSerializable(api_input) ==
    \A i \in 1..Len(api_input.messages) :
        \A j \in 1..Len(api_input.messages[i].content) :
            LET unit == api_input.messages[i].content[j]
            IN  unit.type = "image_url" => "set" \notin DOMAIN unit.image_url

\* Whether a response body holds a first completion: response["choices"][0].
HasFirstCompletion(body) == body.kind = "json" /\ Len(body.choices) >= 1

\* A decoder that takes the last completion of the response.
ConvertApiOutputToConversation_LastChoice(body, original) ==
    [conversation_id |-> original.conversation_id,
     metadata |-> original.metadata,
     messages |-> Append(original.messages,
                         [role |-> body.choices[Len(body.choices)].message.role,
                          type |-> "text",
                          content |-> body.choices[Len(body.choices)].message.content,
                          binary |-> FALSE])]

\* _convert_api_output_to_conversation, for a body with a first completion.
ConvertApiOutputToConversation(body, original) ==
    [conversation_id |-> original.conversation_id,
     metadata |-> original.metadata,
     messages |-> Append(original.messages,
                         [role |-> body.choices[1].message.role,
                          type |-> "text",
                          content |-> body.choices[1].message.content,
                          binary |-> FALSE])]

(***************************************************************************)
(* The remote chat-completion service, as _query_api sees it.              *)
(***************************************************************************)
\* The completion the service sends for the a-th request of unit u.
Completion(u, a) ==
    [kind |-> "json",
     choices |-> <<[message |-> [role |-> "assistant",
                                 content |-> [reply_to |-> u, attempt |-> a]]]>>]

\* A JSON body without choices (an error object), and a body that is no JSON.
JsonWithoutChoices == [kind |-> "json", choices |-> <<>>]
NotJson == [kind |-> "text", choices |-> <<>>]

\* What session.post can come back with: any status with any body, or no
\* response at all (status 0: the connection failed or timed out).
Responses(u, a) ==
    { [status |-> s, body |-> b] :
        s \in {200, 500}, b \in {Completion(u, a), JsonWithoutChoices, NotJson} }
    \cup { [status |-> 0, body |-> NotJson] }

(***************************************************************************)
(* Dispatch Controller: _query_api, one coroutine per conversation.        *)
(*                                                                         *)
(* pc[u]:  "waiting"    at `async with semaphore`, not admitted            *)
(*         "post"       admitted, about to call session.post               *)
(*         "inflight"   awaiting the response of session.post              *)
(*         "sleepFail"  in asyncio.sleep after a non-200 response          *)
(*         "sleepOK"    in asyncio.sleep after a decoded 200 response      *)
(*         "done"       returned `result`                                  *)
(*         "raised"     left by an exception                               *)
(***************************************************************************)
\* acquire that never blocks.
CanAcquire_Unguarded(value) == TRUE

\* asyncio.Semaphore.acquire goes on only while the value is positive.
CanAcquire(value) == value > 0

\* A retry loop that runs once too often.
RetryRange_OneMore == max_retries + 2

\* The iterations of `for _ in range(remote_params.max_retries + 1)`.
RetryRange == max_retries + 1

\* A status check that takes every response for a success.
IsSuccess_AnyStatus(status) == TRUE

\* `if response.status == 200`.
IsSuccess(status) == status = 200

\* A sleep placed after the `async with semaphore` block.
SemaphoreWhileSleeping_Released(value) == value + 1

\* The semaphore's value once a unit starts a politeness sleep: both
\* asyncio.sleep calls are inside `async with semaphore`, which leaves the
\* value alone until the block is left.
SemaphoreWhileSleeping(value) == value

\* A unit that leaves the gate with its permit.
Finish_KeepsPermit(u, newpc, exception) ==
    /\ semaphore' = semaphore
    /\ pc' = [pc EXCEPT ![u] = newpc]
    /\ err' = [err EXCEPT ![u] = exception]
    /\ completed' = Append(completed, u)

\* Leaving `async with semaphore` by `return result` or by an exception: the
\* permit is released, and the finished task is handed to as_completed.
Finish(u, newpc, exception) ==
    /\ semaphore' = semaphore + 1
    /\ pc' = [pc EXCEPT ![u] = newpc]
    /\ err' = [err EXCEPT ![u] = exception]
    /\ completed' = Append(completed, u)

\* A retry loop that takes a failed connection for a failed attempt.
TransportFailure_Retried(u) ==
    /\ pc' = [pc EXCEPT ![u] = "sleepFail"]
    /\ semaphore' = SemaphoreWhileSleeping(semaphore)
    /\ UNCHANGED <<err, completed>>

\* session.post (or reading the response) raised aiohttp.ClientError or a
\* timeout: the retry loop has no try/except, so the exception leaves
\* `async with semaphore` and the unit.
TransportFailure(u) == Finish(u, "raised", "ClientError")

\* `async with semaphore:` is entered, and the request is encoded.
Acquire(u) ==
    /\ run = "running"
    /\ pc[u] = "waiting"
    /\ CanAcquire(semaphore)
    /\ IF "raises" \in DOMAIN ConvertConversationToApiInput(input[u])
       THEN /\ pc' = [pc EXCEPT ![u] = "raised"]
            /\ err' = [err EXCEPT ![u] = "ValueError"]
            /\ completed' = Append(completed, u)
            /\ UNCHANGED semaphore
       ELSE /\ semaphore' = semaphore - 1
            /\ pc' = [pc EXCEPT ![u] = "post"]
            /\ UNCHANGED <<err, completed>>
    /\ UNCHANGED <<num_workers, max_retries, output_path, input, attempts,
                   statuses, result, scratch, consumed, run, runErr,
                   conversations, finalOutput, batchVars, codec>>

\* One iteration of the retry loop begins: session.post(json=api_input).
Post(u) ==
    /\ run = "running"
    /\ pc[u] = "post"
    /\ IF JsonSerializable(ConvertConversationToApiInput(input[u]))
       THEN /\ attempts' = [attempts EXCEPT ![u] = @ + 1]
            /\ pc' = [pc EXCEPT ![u] = "inflight"]
            /\ UNCHANGED <<semaphore, err, completed>>
       ELSE /\ Finish(u, "raised", "TypeError")
            /\ UNCHANGED attempts
    /\ UNCHANGED <<num_workers, max_retries, output_path, input, statuses,
                   result, scratch, consumed, run, runErr, conversations,
                   finalOutput, batchVars, codec>>

\* The response arrives: `await response.json()`, then the status check.
Respond(u) ==
    /\ run = "running"
    /\ pc[u] = "inflight"
    /\ \E response \in Responses(u, attempts[u]) :
        /\ statuses' = [statuses EXCEPT ![u] = Append(@, response.status)]
        /\ IF response.status = 0
           THEN /\ TransportFailure(u)
                /\ UNCHANGED <<result, scratch>>
           ELSE IF response.body.kind # "json"
           THEN \* response.json() raised, whatever the status
                /\ Finish(u, "raised", "JSONError")
                /\ UNCHANGED <<result, scratch>>
           ELSE IF IsSuccess(response.status)
           THEN IF HasFirstCompletion(response.body)
                THEN /\ result' = [result EXCEPT ![u] =
                            ConvertApiOutputToConversation(response.body, input[u])]
                     /\ scratch' = IF output_path
                                   THEN Append(scratch, result'[u])
                                   ELSE scratch
                     /\ pc' = [pc EXCEPT ![u] = "sleepOK"]
                     /\ semaphore' = SemaphoreWhileSleeping(semaphore)
                     /\ UNCHANGED <<err, completed>>
                ELSE \* response["choices"][0] raised
                     /\ Finish(u, "raised", "KeyError")
                     /\ UNCHANGED <<result, scratch>>
           ELSE /\ pc' = [pc EXCEPT ![u] = "sleepFail"]
                /\ semaphore' = SemaphoreWhileSleeping(semaphore)
                /\ UNCHANGED <<result, scratch, err, completed>>
    /\ UNCHANGED <<num_workers, max_retries, output_path, input, attempts,
                   consumed, run, runErr, conversations, finalOutput,
                   batchVars, codec>>

\* The sleep after a decoded response ends: `return result`.
WakeOK(u) ==
    /\ run = "running"
    /\ pc[u] = "sleepOK"
    /\ Finish(u, "done", "none")
    /\ UNCHANGED <<num_workers, max_retries, output_path, input, attempts,
                   statuses, result, scratch, consumed, run, runErr,
                   conversations, finalOutput, batchVars, codec>>

\* The sleep after a failed attempt ends: the next iteration, or, the range
\* used up, `raise RuntimeError("Failed to query API after ... retries.")`.
WakeFail(u) ==
    /\ run = "running"
    /\ pc[u] = "sleepFail"
    /\ IF attempts[u] < RetryRange
       THEN /\ pc' = [pc EXCEPT ![u] = "post"]
            /\ UNCHANGED <<semaphore, err, completed>>
       ELSE Finish(u, "raised", "RetriesExhausted")
    /\ UNCHANGED <<num_workers, max_retries, output_path, input, attempts,
                   statuses, result, scratch, consumed, run, runErr,
                   conversations, finalOutput, batchVars, codec>>

(***************************************************************************)
(* _infer and infer_online: tqdm.gather over the units.                    *)
(***************************************************************************)
\* A gather that swallows the units' exceptions.
Propagates_Swallowed(u) == FALSE

\* Whether awaiting finished unit u raises in tqdm.gather (`await f`).
Propagates(u) == pc[u] = "raised"

\* A gather that returns the results in completion order.
GatherResults_Unsorted(order) == [i \in 1..Len(order) |-> result[order[i]]]

\* tqdm.gather's value: [i for _, i in sorted(res)], res holding the pairs
\* (index, result) in completion order; sorting puts them in input order.
GatherResults(order) == [i \in 1..Len(order) |-> result[i]]

\* tqdm.gather awaits the next finished unit: its exception propagates out
\* of _infer and infer_online (asyncio.run then cancels the other units).
GatherNext ==
    /\ run = "running"
    /\ consumed < Len(completed)
    /\ IF Propagates(completed[consumed + 1])
       THEN /\ run' = "failed"
            /\ runErr' = err[completed[consumed + 1]]
            /\ UNCHANGED consumed
       ELSE /\ consumed' = consumed + 1
            /\ UNCHANGED <<run, runErr>>
    /\ UNCHANGED <<num_workers, max_retries, output_path, input, semaphore,
                   pc, attempts, statuses, result, err, scratch, completed,
                   conversations, finalOutput, batchVars, codec>>

\* Every unit was awaited: gather returns, infer_online saves and returns.
InferReturn ==
    /\ run = "running"
    /\ consumed = Len(input)
    /\ conversations' = [list |-> GatherResults(completed)]
    /\ finalOutput' = IF output_path THEN conversations' ELSE NoValue
    /\ run' = "returned"
    /\ UNCHANGED <<num_workers, max_retries, output_path, input, semaphore,
                   pc, attempts, statuses, result, err, scratch, completed,
                   consumed, runErr, batchVars, codec>>

\* The input lists: conversation i carries the identifier i.
Inputs ==
    UNION { { [i \in 1..n |-> Conversation(i, shapes[i])] :
                shapes \in [1..n -> ConvShapes] } : n \in 0..MaxConvs }

InitOnline ==
    /\ num_workers \in 1..MaxWorkers
    /\ max_retries \in 0..MaxRetries
    /\ output_path \in BOOLEAN
    /\ input \in Inputs
    /\ semaphore = num_workers
    /\ pc = [u \in Units |-> "waiting"]
    /\ attempts = [u \in Units |-> 0]
    /\ statuses = [u \in Units |-> <<>>]
    /\ result = [u \in Units |-> NoValue]
    /\ err = [u \in Units |-> "none"]
    /\ scratch = <<>>
    /\ completed = <<>>
    /\ consumed = 0
    /\ run = "running"
    /\ runErr = "none"
    /\ conversations = NoValue
    /\ finalOutput = NoValue
    /\ BatchIdle

NextOnline ==
    \/ \E u \in Units : Acquire(u)
    \/ \E u \in Units : Post(u)
    \/ \E u \in Units : Respond(u)
    \/ \E u \in Units : WakeOK(u)
    \/ \E u \in Units : WakeFail(u)
    \/ GatherNext
    \/ InferReturn

SpecOnline == InitOnline /\ [][NextOnline]_vars

\* The event loop runs every coroutine that can go on, asyncio.Semaphore
\* wakes its waiters, and every HTTP call comes back: each step of each unit
\* and each step of the gather is taken if it stays possible.
FairOnline ==
    /\ \A u \in 1..MaxConvs :
          /\ WF_vars(u \in Units /\ Acquire(u))
          /\ WF_vars(u \in Units /\ Post(u))
          /\ WF_vars(u \in Units /\ Respond(u))
          /\ WF_vars(u \in Units /\ WakeOK(u))
          /\ WF_vars(u \in Units /\ WakeFail(u))
    /\ WF_vars(GatherNext)
    /\ WF_vars(InferReturn)

SpecOnlineFair == InitOnline /\ [][NextOnline]_vars /\ FairOnline

\* No infer_online call under way.
OnlineIdle ==
    /\ num_workers = 1
    /\ max_retries = 0
    /\ output_path = FALSE
    /\ input = <<>>
    /\ semaphore = 1
    /\ pc = <<>>
    /\ attempts = <<>>
    /\ statuses = <<>>
    /\ result = <<>>
    /\ err = <<>>
    /\ scratch = <<>>
    /\ completed = <<>>
    /\ consumed = 0
    /\ run = "idle"
    /\ runErr = "none"
    /\ conversations = NoValue
    /\ finalOutput = NoValue

(***************************************************************************)
(* The remote batch service, as _get_batch_status and _download_file see   *)
(* it.                                                                     *)
(***************************************************************************)
\* An enum that also has the statuses a job passes through on its way to
\* completed and cancelled.
BatchStatus_Remote ==
    {"validating", "in_progress", "finalizing", "completed", "failed",
     "expired", "cancelling", "cancelled"}

\* The statuses of class BatchStatus.
BatchStatus ==
    {"validating", "in_progress", "completed", "failed", "expired", "cancelled"}

\* The statuses in which the remote service leaves a job for good.
TerminalStatus == {"completed", "failed", "expired", "cancelled"}

\* The remote service's transitions; "finalizing" and "cancelling" are the
\* statuses behind BatchInfo.finalizing_at and BatchInfo.cancelling_at.
NextStatus(status) ==
    CASE status = "validating"  -> {"in_progress", "failed"}
      [] status = "in_progress" -> {"finalizing", "expired", "cancelling"}
      [] status = "finalizing"  -> {"completed"}
      [] status = "cancelling"  -> {"cancelled"}
      [] OTHER                  -> {}

\* The remote service moves the job on: requests fail as it goes, and the
\* output and error file ids appear, if at all, with a terminal status.
RemoteStep ==
    /\ \E s \in NextStatus(job.status),
          f \in job.failed_requests..Len(originals),
          o \in {NoFileId, "file-out"},
          e \in {NoFileId, "file-err"} :
        /\ s \notin TerminalStatus => o = NoFileId /\ e = NoFileId
        /\ job' = [status |-> s, failed_requests |-> f,
                   output_file_id |-> o, error_file_id |-> e]
    /\ UNCHANGED <<onlineVars, opVars, codec, originals, gr_pc, gr_fetched, gr_requests,
                   gr_responses, gr_document, gr_outcome, gr_error, gr_value>>

\* The content of the error file, and the body of a non-200 response.
ErrorFileContent == "error-file-content"
FailureBody == "failure-body"

\* One line of an output document: a result for request custom_id with a
\* completion, one whose response body has no completion, one with an
\* error, or a line that is no JSON.
OutputLines(n) ==
    { [json |-> TRUE, custom_id |-> k, error |-> FALSE, body |-> Completion(k, 1)] :
        k \in 1..n }
    \cup { [json |-> TRUE, custom_id |-> k, error |-> FALSE,
            body |-> JsonWithoutChoices] : k \in 1..n }
    \cup { [json |-> TRUE, custom_id |-> k, error |-> TRUE,
            body |-> JsonWithoutChoices] : k \in 1..n }
    \cup { [json |-> FALSE, custom_id |-> 0, error |-> FALSE, body |-> NotJson] }

\* The output documents the remote service may hold for n requests: up to
\* n + 1 lines, in any order.
OutputDocuments(n) ==
    UNION { [1..len -> OutputLines(n)] : len \in 0..(n + 1) }

(***************************************************************************)
(* Batch Job Manager: _get_batch_results_with_mapping.                     *)
(***************************************************************************)
\* A check that takes every terminal status for a finished job.
IsCompleted_AnyTerminal(status) == status \in TerminalStatus

\* `status.status != BatchStatus.COMPLETED` is false.
IsCompleted(status) == status = "completed"

\* A failure branch taken only when there is no output file to fall back on.
HasFailedRequests_UnlessOutput(status) ==
    /\ status.failed_requests > 0
    /\ status.error_file_id # NoFileId
    /\ status.output_file_id = NoFileId

\* `status.failed_requests > 0 and status.error_file_id`.
HasFailedRequests(status) ==
    status.failed_requests > 0 /\ status.error_file_id # NoFileId

\* A loop that looks the original up by the line's custom_id.
RECURSIVE ParseResults_ByCustomId(_, _, _, _)
ParseResults_ByCustomId(lines, convs, i, acc) ==
    IF i > Len(lines) \/ i > Len(convs)
    THEN [error |-> NoError, list |-> acc]
    ELSE IF ~lines[i].json
    THEN [error |-> [type |-> "JSONDecodeError", msg |-> "", carries |-> ""],
          list |-> <<>>]
    ELSE IF lines[i].error
    THEN [error |-> [type |-> "RuntimeError", msg |-> "Batch request failed",
                     carries |-> "line-error"],
          list |-> <<>>]
    ELSE IF ~HasFirstCompletion(lines[i].body)
    THEN [error |-> [type |-> "KeyError", msg |-> "", carries |-> ""],
          list |-> <<>>]
    ELSE ParseResults_ByCustomId(lines, convs, i + 1,
             Append(acc, ConvertApiOutputToConversation(lines[i].body,
                                                        convs[lines[i].custom_id])))

\* A loop that skips a line with an error and goes on with the next one.
RECURSIVE ParseResults_SkipErrors(_, _, _, _)
ParseResults_SkipErrors(lines, convs, i, acc) ==
    IF i > Len(lines) \/ i > Len(convs)
    THEN [error |-> NoError, list |-> acc]
    ELSE IF ~lines[i].json
    THEN [error |-> [type |-> "JSONDecodeError", msg |-> "", carries |-> ""],
          list |-> <<>>]
    ELSE IF lines[i].error
    THEN ParseResults_SkipErrors(lines, convs, i + 1, acc)
    ELSE IF ~HasFirstCompletion(lines[i].body)
    THEN [error |-> [type |-> "KeyError", msg |-> "", carries |-> ""],
          list |-> <<>>]
    ELSE ParseResults_SkipErrors(lines, convs, i + 1,
             Append(acc, ConvertApiOutputToConversation(lines[i].body, convs[i])))

\* A check that takes the output file for granted.
HasOutputFile_Always(status) == TRUE

\* `if not status.output_file_id` is false.
HasOutputFile(status) == status.output_file_id # NoFileId

\* The loop over zip(results_content.splitlines(), conversations), from
\* pair i on, `acc` holding processed_conversations.
RECURSIVE ParseResults(_, _, _, _)
ParseResults(lines, convs, i, acc) ==
    IF i > Len(lines) \/ i > Len(convs)
    THEN [error |-> NoError, list |-> acc]
    ELSE IF ~lines[i].json
    THEN [error |-> [type |-> "JSONDecodeError", msg |-> "", carries |-> ""],
          list |-> <<>>]
    ELSE IF lines[i].error
    THEN [error |-> [type |-> "RuntimeError", msg |-> "Batch request failed",
                     carries |-> "line-error"],
          list |-> <<>>]
    ELSE IF ~HasFirstCompletion(lines[i].body)
    THEN [error |-> [type |-> "KeyError", msg |-> "", carries |-> ""],
          list |-> <<>>]
    ELSE ParseResults(lines, convs, i + 1,
             Append(acc, ConvertApiOutputToConversation(lines[i].body, convs[i])))

\* The call raises: nothing is returned.
GrRaise(type, msg, carries) ==
    /\ gr_pc' = "done"
    /\ gr_outcome' = "raised"
    /\ gr_error' = [type |-> type, msg |-> msg, carries |-> carries]
    /\ UNCHANGED gr_value

\* get_batch_results is called: _get_batch_status sends GET /batches/{id}.
GrCall ==
    /\ gr_pc = "idle"
    /\ gr_pc' = "status"
    /\ gr_requests' = <<"GET /batches/id">>
    /\ UNCHANGED <<onlineVars, opVars, codec, job, originals, gr_fetched, gr_responses,
                   gr_document, gr_outcome, gr_error, gr_value>>

\* The status response arrives; then the checks of lines 854 to 866, up to
\* the next request.
GrStatus ==
    /\ gr_pc = "status"
    /\ \E http \in {200, 500} :
        /\ gr_responses' = Append(gr_responses, http)
        /\ IF http # 200
           THEN /\ GrRaise("RuntimeError", "Failed to get batch status", FailureBody)
                /\ UNCHANGED <<gr_fetched, gr_requests>>
           ELSE /\ gr_fetched' = job
                /\ IF job.status \notin BatchStatus
                   THEN \* BatchStatus(data["status"]) raised
                        /\ GrRaise("ValueError", "", "")
                        /\ UNCHANGED gr_requests
                   ELSE IF ~IsCompleted(job.status)
                   THEN /\ GrRaise("RuntimeError", "Batch is not completed", job.status)
                        /\ UNCHANGED gr_requests
                   ELSE IF HasFailedRequests(job)
                   THEN /\ gr_pc' = "error_file"
                        /\ gr_requests' = Append(gr_requests, "GET /files/file-err/content")
                        /\ UNCHANGED <<gr_outcome, gr_error, gr_value>>
                   ELSE IF ~HasOutputFile(job)
                   THEN /\ GrRaise("RuntimeError", "No output file available", "")
                        /\ UNCHANGED gr_requests
                   ELSE /\ gr_pc' = "output_file"
                        /\ gr_requests' = Append(gr_requests, "GET /files/file-out/content")
                        /\ UNCHANGED <<gr_outcome, gr_error, gr_value>>
    /\ UNCHANGED <<onlineVars, opVars, codec, job, originals, gr_document>>

\* The error file's download ends: the call raises either way.
GrErrorFile ==
    /\ gr_pc = "error_file"
    /\ \E http \in {200, 500} :
        /\ gr_responses' = Append(gr_responses, http)
        /\ IF http # 200
           THEN GrRaise("RuntimeError", "Failed to download file", FailureBody)
           ELSE GrRaise("RuntimeError", "Batch has failed requests", ErrorFileContent)
    /\ UNCHANGED <<onlineVars, opVars, codec, job, originals, gr_fetched, gr_requests,
                   gr_document>>

\* The output file's download ends: the lines are decoded against the
\* original conversations, by position.
GrOutputFile ==
    /\ gr_pc = "output_file"
    /\ \E http \in {200, 500} :
        /\ gr_responses' = Append(gr_responses, http)
        /\ IF http # 200
           THEN /\ GrRaise("RuntimeError", "Failed to download file", FailureBody)
                /\ UNCHANGED gr_document
           ELSE \E document \in OutputDocuments(Len(originals)) :
                  LET parsed == ParseResults(document, originals, 1, <<>>)
                  IN  /\ gr_document' = [lines |-> document]
                      /\ IF parsed.error # NoError
                         THEN GrRaise(parsed.error.type, parsed.error.msg,
                                      parsed.error.carries)
                         ELSE /\ gr_pc' = "done"
                              /\ gr_outcome' = "returned"
                              /\ gr_value' = [list |-> parsed.list]
                              /\ UNCHANGED gr_error
    /\ UNCHANGED <<onlineVars, opVars, codec, job, originals, gr_fetched, gr_requests>>

\* The caller calls get_batch_results again (it polls on its own).
GrAgain ==
    /\ gr_pc = "done"
    /\ gr_pc' = "idle"
    /\ gr_fetched' = NoValue
    /\ gr_requests' = <<>>
    /\ gr_responses' = <<>>
    /\ gr_document' = NoValue
    /\ gr_outcome' = "none"
    /\ gr_error' = NoError
    /\ gr_value' = NoValue
    /\ UNCHANGED <<onlineVars, opVars, codec, job, originals>>

InitResults ==
    /\ OnlineIdle
    /\ OpIdle
    /\ job = [status |-> "validating", failed_requests |-> 0,
              output_file_id |-> NoFileId, error_file_id |-> NoFileId]
    /\ originals \in { [i \in 1..n |-> Conversation(i, <<TextMessage("user", Text("q"))>>)] :
                        n \in 0..MaxOriginals }
    /\ gr_pc = "idle"
    /\ gr_fetched = NoValue
    /\ gr_requests = <<>>
    /\ gr_responses = <<>>
    /\ gr_document = NoValue
    /\ gr_outcome = "none"
    /\ gr_error = NoError
    /\ gr_value = NoValue

NextResults ==
    \/ RemoteStep
    \/ GrCall
    \/ GrStatus
    \/ GrErrorFile
    \/ GrOutputFile
    \/ GrAgain

SpecResults == InitResults /\ [][NextResults]_vars

(***************************************************************************)
(* The public operations: the remote_params guard each one starts with,    *)
(* and the batch and file-store operations behind it.                      *)
(***************************************************************************)
PublicOperations ==
    {"infer_online", "infer_from_file", "infer_batch", "get_batch_status",
     "list_batches", "get_batch_results", "list_files", "get_file",
     "delete_file", "get_file_content"}

\* The operations that send one request and turn its response into a value.
SingleRequestOperations ==
    {"get_batch_status", "list_batches", "list_files", "get_file",
     "delete_file", "get_file_content"}

\* A guard that the file-store operations lack.
RequiresRemoteParams_BatchOnly(name) ==
    name \in {"infer_online", "infer_from_file", "infer_batch",
              "get_batch_status", "list_batches", "get_batch_results"}

\* `if not inference_config.remote_params: raise ValueError(...)`, the first
\* statement of every public operation.
RequiresRemoteParams(name) == name \in PublicOperations

\* The operation `name` is called, with or without remote_params.
Called(name, params, limit) ==
    [NoOperation EXCEPT !.name = name, !.params = params, !.limit = limit,
                        !.pc = "body"]

\* The operation raises, returns, or sends a request and awaits the response.
OpRaise(o, type, msg, carries) ==
    [o EXCEPT !.pc = "done", !.outcome = "raised",
              !.error = [type |-> type, msg |-> msg, carries |-> carries]]

OpReturn(o, value) ==
    [o EXCEPT !.pc = "done", !.outcome = "returned", !.value = value]

OpSend(o, method, url, payload) ==
    [o EXCEPT !.pc = "wait",
              !.requests = Append(@, [method |-> method, url |-> url,
                                      payload |-> payload])]

\* The operation stopped at its guard.
GuardRaise(o) ==
    OpRaise(o, "ValueError", "Remote params must be provided", "")

GuardFails(o) == RequiresRemoteParams(o.name) /\ ~o.params

\* infer_online, infer_from_file: past the guard the call runs _infer, the
\* run that SpecOnline follows unit by unit.
CallInfer ==
    /\ op.pc = "idle"
    /\ \E name \in {"infer_online", "infer_from_file"}, params \in BOOLEAN :
         LET o == Called(name, params, 0)
         IN  op' = IF GuardFails(o) THEN GuardRaise(o) ELSE o
    /\ UNCHANGED <<onlineVars, codec, job, originals, gr_pc, gr_fetched, gr_requests,
                   gr_responses, gr_document, gr_outcome, gr_error, gr_value,
                   cb_conversations, batch_requests, tmp_file, remote_jobs>>

\* Operations that post where they should read.
RequestMethod_Post(name) == IF name = "delete_file" THEN "DELETE" ELSE "POST"

\* The method and URL of a single-request operation.
RequestMethod(name) == IF name = "delete_file" THEN "DELETE" ELSE "GET"

RequestUrl(name) ==
    CASE name = "get_batch_status" -> "/batches/id"
      [] name = "list_batches"     -> "/batches"
      [] name = "list_files"       -> "/files"
      [] name = "get_file"         -> "/files/id"
      [] name = "delete_file"      -> "/files/id"
      [] name = "get_file_content" -> "/files/id/content"

\* The query parameters: `if limit: params["limit"] = str(limit)`.
RequestParams(name, limit) ==
    IF name \in {"list_batches", "list_files"} /\ limit # 0
    THEN [limit |-> limit]
    ELSE NoValue

\* One of the single-request operations is called (limit 0 stands for None).
CallSingle ==
    /\ op.pc = "idle"
    /\ \E name \in SingleRequestOperations, params \in BOOLEAN,
          limit \in 0..MaxLimit :
         LET o == Called(name, params, limit)
         IN  /\ name \notin {"list_batches", "list_files"} => limit = 0
             /\ op' = IF GuardFails(o)
                      THEN GuardRaise(o)
                      ELSE OpSend(o, RequestMethod(name), RequestUrl(name),
                                  RequestParams(name, limit))
    /\ UNCHANGED <<onlineVars, codec, job, originals, gr_pc, gr_fetched, gr_requests,
                   gr_responses, gr_document, gr_outcome, gr_error, gr_value,
                   cb_conversations, batch_requests, tmp_file, remote_jobs>>

\* A status check that lets every response through.
ResponseOk_Any(status) == TRUE

\* `if response.status != 200: raise RuntimeError(...)` is not taken.
ResponseOk(status) == status = 200

\* The message of the RuntimeError a non-200 response raises.
FailureMessage(name) ==
    CASE name = "get_batch_status" -> "Failed to get batch status"
      [] name = "list_batches"     -> "Failed to list batches"
      [] name = "list_files"       -> "Failed to list files"
      [] name = "get_file"         -> "Failed to get file"
      [] name = "delete_file"      -> "Failed to delete file"
      [] name = "get_file_content" -> "Failed to download file"

\* A has_more that is the flag of the remote service's response.
HasMore_FromRemote(limit, count, flag) == flag

\* `has_more=len(files) == limit if limit else False`: the response's own
\* flag is not read.
HasMore(limit, count, flag) == IF limit # 0 THEN count = limit ELSE FALSE

\* What a single-request operation makes of a 200 response: `count` items
\* and the flag `flag` are what the remote service put in the body.
SingleResult(o, count, flag) ==
    CASE o.name = "get_batch_status" ->
            IF job.status \in BatchStatus
            THEN OpReturn(o, [batch_id |-> "id", status |-> job.status,
                              failed_requests |-> job.failed_requests,
                              output_file_id |-> job.output_file_id,
                              error_file_id |-> job.error_file_id])
            ELSE OpRaise(o, "ValueError", "", "")
      [] o.name = "list_batches" ->
            OpReturn(o, [batches |-> [i \in 1..count |-> job.status],
                         has_more |-> flag])
      [] o.name = "list_files" ->
            OpReturn(o, [files |-> [i \in 1..count |-> [file |-> i]],
                         has_more |-> HasMore(o.limit, count, flag)])
      [] o.name = "get_file" -> OpReturn(o, [file |-> 1])
      [] o.name = "delete_file" -> OpReturn(o, [deleted |-> flag])
      [] o.name = "get_file_content" -> OpReturn(o, [content |-> "content"])

\* The response of a single-request operation arrives (status 0: none came,
\* the connection failed).
SingleResponse ==
    /\ op.pc = "wait"
    /\ op.name \in SingleRequestOperations
    /\ \E status \in {200, 500, 0}, count \in 0..MaxLimit, flag \in BOOLEAN :
         LET o == [op EXCEPT !.responses = Append(@, [status |-> status, id |-> ""])]
         IN  op' = IF status = 0
                   THEN OpRaise(o, "ClientError", "", "")
                   ELSE IF ~ResponseOk(status)
                   THEN OpRaise(o, "RuntimeError", FailureMessage(o.name),
                                FailureBody)
                   ELSE SingleResult(o, count, flag)
    /\ UNCHANGED <<onlineVars, codec, job, originals, gr_pc, gr_fetched, gr_requests,
                   gr_responses, gr_document, gr_outcome, gr_error, gr_value,
                   cb_conversations, batch_requests, tmp_file, remote_jobs>>

\* get_batch_results is called; past the guard it runs
\* _get_batch_results_with_mapping (GrCall and the actions after it).
CallGetBatchResults ==
    /\ op.pc = "idle"
    /\ \E params \in BOOLEAN :
         LET o == Called("get_batch_results", params, 0)
         IN  op' = IF GuardFails(o) THEN GuardRaise(o) ELSE o
    /\ UNCHANGED <<onlineVars, codec, job, originals, gr_pc, gr_fetched, gr_requests,
                   gr_responses, gr_document, gr_outcome, gr_error, gr_value,
                   cb_conversations, batch_requests, tmp_file, remote_jobs>>

GetBatchResultsBody ==
    /\ op.name = "get_batch_results"
    /\ op.pc = "body"
    /\ GrCall

(***************************************************************************)
(* infer_batch: _create_batch and _upload_batch_file.                      *)
(***************************************************************************)
\* The conversations infer_batch is tried on: those of the online path, and
\* one with two text turns of the same role in a row.
BatchShapes ==
    ConvShapes \cup { <<TextMessage("user", Text("q")),
                        TextMessage("user", Text("r"))>> }

BatchInputs ==
    UNION { [1..n -> BatchShapes] : n \in 0..MaxOriginals }

\* f"request-{i}", for the i of enumerate(conversations) that starts at 0.
CustomId_Fixed(i) == [prefix |-> "request-", index |-> 0]

CustomId(i) == [prefix |-> "request-", index |-> i]

\* _BATCH_ENDPOINT and _BATCH_PURPOSE.
BatchEndpoint == "/v1/chat/completions"
BatchPurpose == "batch"

\* The loop of _create_batch over enumerate(conversations).
BatchRequests(convs) ==
    [p \in 1..Len(convs) |->
        [custom_id |-> CustomId(p - 1),
         method |-> "POST",
         url |-> BatchEndpoint,
         body |-> ConvertConversationToApiInput(convs[p])]]

\* The ids the remote service gives to uploaded files and to new jobs.
FileIds == {"file-1", "file-2"}
BatchIds == {"batch-1", "batch-2"}

\* infer_batch is called. Past the guard _create_batch builds the requests,
\* _upload_batch_file writes them to a temporary file (jsonlines serialises
\* each one, outside the try block) and sends the file.
CallInferBatch ==
    /\ op.pc = "idle"
    /\ \E params \in BOOLEAN, shapes \in BatchInputs :
         LET o == Called("infer_batch", params, 0)
             convs == [p \in 1..Len(shapes) |-> Conversation(p, shapes[p])]
             requests == BatchRequests(convs)
         IN  /\ cb_conversations' = convs
             /\ IF GuardFails(o)
                THEN /\ op' = GuardRaise(o)
                     /\ UNCHANGED <<batch_requests, tmp_file>>
                ELSE IF \E p \in 1..Len(requests) :
                            "raises" \in DOMAIN requests[p].body
                THEN /\ op' = OpRaise(o, "ValueError", "", "")
                     /\ UNCHANGED <<batch_requests, tmp_file>>
                ELSE IF \E p \in 1..Len(requests) :
                            ~JsonSerializable(requests[p].body)
                THEN /\ op' = OpRaise(o, "TypeError", "", "")
                     /\ batch_requests' = [list |-> requests]
                     /\ tmp_file' = "exists"
                ELSE /\ op' = OpSend(o, "POST", "/files",
                                     [file |-> requests, purpose |-> BatchPurpose])
                     /\ batch_requests' = [list |-> requests]
                     /\ tmp_file' = "exists"
    /\ UNCHANGED <<onlineVars, codec, job, originals, gr_pc, gr_fetched, gr_requests,
                   gr_responses, gr_document, gr_outcome, gr_error, gr_value,
                   remote_jobs>>

\* A check that takes every upload response for a success.
UploadOk_Any(status) == TRUE

\* `if response.status != 200: raise RuntimeError("Failed to upload ...")`
\* is not taken.
UploadOk(status) == status = 200

\* The upload's response arrives. The finally clause unlinks the temporary
\* file; after a success _create_batch posts the job with the file id.
UploadResponse ==
    /\ op.name = "infer_batch"
    /\ op.pc = "wait"
    /\ Len(op.requests) = 1
    /\ \E response \in { [status |-> 200, id |-> f] : f \in FileIds }
                       \cup { [status |-> 500, id |-> ""], [status |-> 0, id |-> ""] } :
         LET o == [op EXCEPT !.responses = Append(@, response)]
         IN  op' = IF response.status = 0
                   THEN OpRaise(o, "ClientError", "", "")
                   ELSE IF ~UploadOk(response.status)
                   THEN OpRaise(o, "RuntimeError", "Failed to upload batch file",
                                FailureBody)
                   ELSE OpSend(o, "POST", "/batches",
                               [input_file_id |-> response.id,
                                endpoint |-> BatchEndpoint,
                                completion_window |-> "24h"])
    /\ tmp_file' = "deleted"
    /\ UNCHANGED <<onlineVars, codec, job, originals, gr_pc, gr_fetched, gr_requests,
                   gr_responses, gr_document, gr_outcome, gr_error, gr_value,
                   cb_conversations, batch_requests, remote_jobs>>

\* The jobs the remote service holds once it answered a POST /batches: it
\* created the job whose id a 200 response carries.
RemoteJobsAfter(response) ==
    IF response.status = 200 THEN remote_jobs \cup {response.id} ELSE remote_jobs

\* The response to POST /batches arrives.
CreateResponse ==
    /\ op.name = "infer_batch"
    /\ op.pc = "wait"
    /\ Len(op.requests) = 2
    /\ \E response \in { [status |-> 200, id |-> b] : b \in BatchIds }
                       \cup { [status |-> 500, id |-> ""], [status |-> 0, id |-> ""] } :
         LET o == [op EXCEPT !.responses = Append(@, response)]
         IN  /\ op' = IF response.status = 0
                      THEN OpRaise(o, "ClientError", "", "")
                      ELSE IF response.status # 200
                      THEN OpRaise(o, "RuntimeError", "Failed to create batch",
                                   FailureBody)
                      ELSE OpReturn(o, [id |-> response.id])
             /\ remote_jobs' = RemoteJobsAfter(response)
    /\ UNCHANGED <<onlineVars, codec, job, originals, gr_pc, gr_fetched, gr_requests,
                   gr_responses, gr_document, gr_outcome, gr_error, gr_value,
                   cb_conversations, batch_requests, tmp_file>>

InitOperations == InitResults

NextOperations ==
    \/ RemoteStep
    \/ CallInfer
    \/ CallSingle
    \/ SingleResponse
    \/ CallInferBatch
    \/ UploadResponse
    \/ CreateResponse
    \/ CallGetBatchResults
    \/ GetBatchResultsBody
    \/ GrStatus
    \/ GrErrorFile
    \/ GrOutputFile

SpecOperations == InitOperations /\ [][NextOperations]_vars

(***************************************************************************)
(* The encoder and the decoder on their own: each pure function applied    *)
(* once to an argument out of a bounded set.                               *)
(***************************************************************************)
ImageBinaryMessage(role, bytes) ==
    [role |-> role, type |-> "image_binary", content |-> bytes, binary |-> TRUE]

\* The messages the functions are tried on, and the lists of them.
CodecMessages ==
    UNION { { TextMessage(role, Text("q")),
              ImageUrlMessage(role, Text("http://img")),
              ImageBinaryMessage(role, Text("bytes")) } :
            role \in {"user", "assistant"} }

MessageLists == UNION { [1..n -> CodecMessages] : n \in 0..MaxMessages }

\* _get_list_of_message_json_dicts is applied.
ApplyGetList ==
    /\ codec = NoCall
    /\ \E messages \in MessageLists, group \in BOOLEAN :
         codec' = [fn |-> "_get_list_of_message_json_dicts",
                   messages |-> messages,
                   group_adjacent_same_role_turns |-> group,
                   out |-> GetListOfMessageJsonDicts(messages, group, 1, <<>>)]
    /\ UNCHANGED <<onlineVars, batchVars>>

\* The JSON texts tried as schema strings, as their tokens.
JsonTexts ==
    { <<"{", "}">>,
      <<"{", "type", ":", "object", "}">>,
      <<"{", "type", ":", "object", ",", "title", ":", "T", "}">>,
      <<"{", "type", ":", "object", ",", "type", ":", "array", "}">>,
      <<"{", "type">>,
      <<"3">> }

Dict(map) == [kind |-> "dict", map |-> map]

\* The guided_decoding settings tried: none, one without a schema, and
\* schemas given as a dict, a string, a pydantic model class and a number.
GuidedDecodings ==
    { NoValue, [json |-> NoValue], [json |-> [kind |-> "int", value |-> 3]],
      [json |-> Dict([type |-> "object"])],
      [json |-> Dict([type |-> "array"])],
      [json |-> [kind |-> "pydantic", name |-> "Answer",
                 schema |-> Dict([type |-> "object"])]] }
    \cup { [json |-> [kind |-> "str", tokens |-> t]] : t \in JsonTexts }

\* _convert_conversation_to_api_input is applied.
ApplyConvert ==
    /\ codec = NoCall
    /\ \E messages \in MessageLists, guided_decoding \in GuidedDecodings :
         codec' = [fn |-> "_convert_conversation_to_api_input",
                   messages |-> messages,
                   guided_decoding |-> guided_decoding,
                   out |-> ConvertConversationWithGuidedDecoding(
                               Conversation(1, messages), guided_decoding)]
    /\ UNCHANGED <<onlineVars, batchVars>>

\* A response with two completions.
TwoCompletions ==
    [kind |-> "json",
     choices |-> <<[message |-> [role |-> "assistant", content |-> Text("first")]],
                   [message |-> [role |-> "assistant", content |-> Text("second")]]>>]

\* The response bodies the decoder is tried on.
DecodeBodies == {Completion(1, 1), TwoCompletions, JsonWithoutChoices}

\* The original's message list once the decoder is through: the new list is
\* built by unpacking, `[*original_conversation.messages, Message(...)]`.
MessagesAfterDecode(original) == original.messages

\* _convert_api_output_to_conversation is applied; response["choices"][0]
\* raises when there is no first completion.
ApplyDecode ==
    /\ codec = NoCall
    /\ \E messages \in MessageLists, body \in DecodeBodies :
         LET original == Conversation(1, messages)
         IN  codec' = [fn |-> "_convert_api_output_to_conversation",
                       response |-> body,
                       original |-> original,
                       original_after |->
                           [original EXCEPT !.messages = MessagesAfterDecode(original)],
                       out |-> IF HasFirstCompletion(body)
                               THEN ConvertApiOutputToConversation(body, original)
                               ELSE [raises |-> "KeyError"]]
    /\ UNCHANGED <<onlineVars, batchVars>>

\* _get_content_for_message is applied.
ApplyContent ==
    /\ codec = NoCall
    /\ \E role \in {"user", "assistant"}, binary \in BOOLEAN,
          type \in {"text", "image_url", "image_binary", "image_path"} :
         LET message == [role |-> role, type |-> type,
                         content |-> Text("c"), binary |-> binary]
         IN  /\ type = "text" => ~binary
             /\ type = "image_binary" => binary
             /\ codec' = [fn |-> "_get_content_for_message",
                          message |-> message,
                          out |-> GetContentForMessage(message)]
    /\ UNCHANGED <<onlineVars, batchVars>>

InitCodec == OnlineIdle /\ BatchIdle

NextCodec ==
    \/ ApplyGetList
    \/ ApplyConvert
    \/ ApplyDecode
    \/ ApplyContent

SpecCodec == InitCodec /\ [][NextCodec]_vars

(***************************************************************************)
(* Properties of the online path.                                          *)
(***************************************************************************)
\* The units inside `async with semaphore`.
InGate == { u \in Units : pc[u] \in {"post", "inflight", "sleepOK", "sleepFail"} }

\* The units in a politeness sleep.
Sleeping == { u \in Units : pc[u] \in {"sleepOK", "sleepFail"} }

\* The units that came to an end.
Finished == { u \in Units : pc[u] \in {"done", "raised"} }

\* C1: at any moment at most num_workers units are inside the admission
\* gate (admitted and not yet released), so at most num_workers HTTP
\* attempts are in flight.
C1_GateBound ==
    /\ Cardinality(InGate) <= num_workers
    /\ Cardinality({ u \in Units : pc[u] = "inflight" }) <= num_workers

\* The gate is full with a request in flight while another unit waits.
C1_Witness ==
    /\ Cardinality(InGate) = num_workers
    /\ \E u \in Units : pc[u] = "inflight"
    /\ \E u \in Units : pc[u] = "waiting"

\* C2: when infer_online returns, the list is as long as the input and its
\* i-th element is input conversation i extended by the completion sent in
\* answer to unit i, whatever the order the units finished in.
C2_OrderPreserved ==
    run = "returned" =>
        /\ Len(conversations.list) = Len(input)
        /\ \A i \in Units :
            LET c == conversations.list[i]
                n == Len(input[i].messages)
            IN  /\ c.conversation_id = input[i].conversation_id
                /\ Len(c.messages) = n + 1
                /\ SubSeq(c.messages, 1, n) = input[i].messages
                /\ c.messages[n + 1].role = "assistant"
                /\ c.messages[n + 1].type = "text"
                /\ c.messages[n + 1].content.reply_to = i

\* infer_online returned although unit 2 finished before unit 1.
C2_Witness ==
    /\ run = "returned"
    /\ Len(input) = 2
    /\ completed = <<2, 1>>

\* C3: a unit issues at most max_retries + 1 attempts; every attempt but the
\* last one issued came back with a non-success status; and a success is
\* the last attempt of its unit.
C3_AttemptBudget ==
    \A u \in Units :
        /\ attempts[u] <= max_retries + 1
        /\ Len(statuses[u]) \in {attempts[u] - 1, attempts[u]}
        /\ \A k \in 1..Len(statuses[u]) :
               k < attempts[u] => statuses[u][k] \notin {0, 200}
        /\ \A k \in 1..Len(statuses[u]) :
               statuses[u][k] = 200 => k = attempts[u]

\* A unit has its last allowed attempt in flight, after a failed one.
C3_Witness ==
    \E u \in Units :
        /\ pc[u] = "inflight"
        /\ attempts[u] = max_retries + 1
        /\ attempts[u] >= 2

\* C4: a finished unit all of whose attempts came back with a non-success
\* status raised the retries-exhausted error, after exactly
\* max_retries + 1 attempts.
C4_ExhaustedAfterAllFailures ==
    \A u \in Finished :
        ( /\ statuses[u] # <<>>
          /\ \A k \in 1..Len(statuses[u]) : statuses[u][k] \notin {0, 200} )
        => /\ err[u] = "RetriesExhausted"
           /\ attempts[u] = max_retries + 1

\* What holds of the retries-exhausted error: it is raised after exactly
\* max_retries + 1 attempts, each of which came back with a non-success
\* status.
ExhaustedMeansAllFailed ==
    \A u \in Units :
        err[u] = "RetriesExhausted" =>
            /\ attempts[u] = max_retries + 1
            /\ Len(statuses[u]) = max_retries + 1
            /\ \A k \in 1..Len(statuses[u]) : statuses[u][k] \notin {0, 200}

\* The first finished unit, in completion order, that left by an exception.
FirstFailed ==
    LET failed == { k \in 1..Len(completed) : pc[completed[k]] = "raised" }
    IN  completed[CHOOSE k \in failed : \A j \in failed : k <= j]

\* C5: infer_online has no partial success. It returns a list only when
\* every unit returned, the list then being complete; once a unit has
\* exhausted its retries the call can no longer return and ends by raising
\* the error of the first unit that failed (the retries-exhausted error when
\* that is the unit), with no list returned and no final output written.
C5_NoPartialSuccess ==
    /\ run = "returned" =>
          /\ \A u \in Units : pc[u] = "done"
          /\ Len(conversations.list) = Len(input)
          /\ \A u \in Units : conversations.list[u] # NoValue
    /\ run # "returned" => conversations = NoValue /\ finalOutput = NoValue
    /\ \A u \in Units :
          err[u] = "RetriesExhausted" =>
              /\ run # "returned"
              /\ run = "running" =>
                    \E k \in (consumed + 1)..Len(completed) : completed[k] = u
    /\ run = "failed" =>
          /\ runErr = err[FirstFailed]
          /\ runErr # "none"
          /\ (\A u \in Units : pc[u] = "raised" => err[u] = "RetriesExhausted")
                => runErr = "RetriesExhausted"

\* infer_online failed with the retries-exhausted error of one unit although
\* another unit had returned and written its result to the scratch file.
C5_Witness ==
    /\ run = "failed"
    /\ runErr = "RetriesExhausted"
    /\ output_path
    /\ scratch # <<>>
    /\ \E u \in Units : pc[u] = "done"
    /\ finalOutput = NoValue

\* C6 as claimed: a sleeping unit occupies no permit, so that with
\* num_workers units asleep a waiting unit can still be admitted.
C6_SleepFreesPermit ==
    ( /\ run = "running"
      /\ Cardinality(Sleeping) = num_workers
      /\ \E u \in Units : pc[u] = "waiting" )
    => \E u \in Units : pc[u] = "waiting" /\ CanAcquire(semaphore)

\* C6 as amended: a unit keeps its permit through its politeness sleeps (the
\* permits out are those of the units inside the gate, the sleeping ones
\* included), so that with num_workers units asleep no waiting unit is
\* admitted before one of them leaves the gate.
C6_SleepHoldsPermit ==
    /\ semaphore = num_workers - Cardinality(InGate)
    /\ Sleeping \subseteq InGate
    /\ Cardinality(Sleeping) = num_workers => ~CanAcquire(semaphore)

\* Every permit is held by a sleeping unit while another unit waits.
C6_Witness ==
    /\ run = "running"
    /\ Cardinality(Sleeping) = num_workers
    /\ \E u \in Units : pc[u] = "waiting"
    /\ \E u \in Units : pc[u] = "sleepOK"

\* C7: when infer_online returns, a unit whose first k attempts failed and
\* whose attempt k + 1 succeeded has, at its own position of the full-length
\* list, the completion sent in answer to attempt k + 1.
C7_RetriedResponse ==
    run = "returned" =>
        /\ Len(conversations.list) = Len(input)
        /\ \A u \in Units :
            LET k == Len(statuses[u]) - 1
                c == conversations.list[u]
            IN  /\ k <= max_retries
                /\ \A j \in 1..k : statuses[u][j] \notin {0, 200}
                /\ statuses[u][k + 1] = 200
                /\ c.messages[Len(c.messages)].content =
                       [reply_to |-> u, attempt |-> k + 1]

\* infer_online returned two conversations, the second one's first attempt
\* having failed.
C7_Witness ==
    /\ run = "returned"
    /\ Len(input) = 2
    /\ statuses[2] = <<500, 200>>
    /\ statuses[1] = <<200>>

(***************************************************************************)
(* Properties of get_batch_results.                                        *)
(***************************************************************************)
\* C8: a call that fetched any status other than "completed" raises, having
\* issued no file download, and returns no conversations.
C8_NotCompletedNoDownload ==
    (gr_fetched # NoValue /\ gr_fetched.status # "completed") =>
        /\ gr_pc = "done"
        /\ gr_outcome = "raised"
        /\ gr_requests = <<"GET /batches/id">>
        /\ gr_value = NoValue

\* A call found the job expired with an output file at hand, and raised.
C8_Witness ==
    /\ gr_fetched # NoValue
    /\ gr_fetched.status = "expired"
    /\ gr_fetched.output_file_id # NoFileId
    /\ gr_outcome = "raised"

\* C9: a call that fetched "completed" with failed requests and an error
\* file id requests the error file and nothing else, never the output file,
\* returns nothing, and ends by raising: with the error file's content when
\* the download succeeded, with the failed download's error otherwise.
C9_FailedRequestsRaise ==
    ( /\ gr_fetched # NoValue
      /\ gr_fetched.status = "completed"
      /\ gr_fetched.failed_requests > 0
      /\ gr_fetched.error_file_id # NoFileId )
    => /\ gr_requests = <<"GET /batches/id", "GET /files/file-err/content">>
       /\ gr_pc \in {"error_file", "done"}
       /\ gr_outcome # "returned"
       /\ gr_value = NoValue
       /\ gr_pc = "done" =>
             /\ gr_outcome = "raised"
             /\ gr_responses[2] = 200 =>
                   gr_error = [type |-> "RuntimeError",
                               msg |-> "Batch has failed requests",
                               carries |-> ErrorFileContent]
             /\ gr_responses[2] # 200 =>
                   gr_error.msg = "Failed to download file"

\* A call raised with the error file's content although the job had an
\* output file too.
C9_Witness ==
    /\ gr_fetched # NoValue
    /\ gr_fetched.status = "completed"
    /\ gr_fetched.failed_requests > 0
    /\ gr_fetched.output_file_id # NoFileId
    /\ gr_pc = "done"
    /\ gr_error.carries = ErrorFileContent

\* C10: a call that fetched a status payload with failed requests, with or
\* without an error file id, raises and returns no conversations.
C10_AnyFailureRaises ==
    ( /\ gr_fetched # NoValue
      /\ gr_fetched.failed_requests > 0
      /\ gr_pc = "done" )
    => /\ gr_outcome = "raised"
       /\ gr_value = NoValue

(***************************************************************************)
(* Properties of get_batch_results and its output document.                *)
(***************************************************************************)
\* The call has downloaded an output document.
Downloaded == gr_document # NoValue

\* Line i of the downloaded document is a result without error that holds a
\* completion.
GoodLine(i) ==
    /\ gr_document.lines[i].json
    /\ ~gr_document.lines[i].error
    /\ HasFirstCompletion(gr_document.lines[i].body)

\* C11: when the downloaded document has as many lines as there are
\* originals and every line is a result without error, the call returns as
\* many conversations as originals, and the i-th one is the i-th original
\* (same id, same metadata, same messages) followed by one message, the
\* completion of line i, whatever custom_id that line carries.
C11_PositionalRemap ==
    ( /\ Downloaded
      /\ Len(gr_document.lines) = Len(originals)
      /\ \A i \in 1..Len(originals) : GoodLine(i) )
    => /\ gr_outcome = "returned"
       /\ Len(gr_value.list) = Len(originals)
       /\ \A i \in 1..Len(originals) :
             LET conv == gr_value.list[i]
                 n == Len(originals[i].messages)
             IN  /\ conv.conversation_id = originals[i].conversation_id
                 /\ conv.metadata = originals[i].metadata
                 /\ Len(conv.messages) = n + 1
                 /\ SubSeq(conv.messages, 1, n) = originals[i].messages
                 /\ conv.messages[n + 1].role = "assistant"
                 /\ conv.messages[n + 1].content =
                        gr_document.lines[i].body.choices[1].message.content

\* A call returned two conversations from a document whose two lines come
\* in the opposite order of their custom_ids.
C11_Witness ==
    /\ Downloaded
    /\ Len(originals) = 2
    /\ Len(gr_document.lines) = 2
    /\ GoodLine(1) /\ GoodLine(2)
    /\ gr_document.lines[1].custom_id = 2
    /\ gr_document.lines[2].custom_id = 1
    /\ gr_outcome = "returned"
    /\ gr_value.list[1].conversation_id = 1

\* C12: a call that returns, returns as many conversations as there are
\* originals, whatever the number of lines of the output document.
C12_CountEqualsOriginals ==
    gr_outcome = "returned" => Len(gr_value.list) = Len(originals)

\* C13: when a line of the downloaded document that is paired with an
\* original carries an error, the call raises and returns nothing: neither
\* the conversations of the lines before it nor those after it.
C13_LineErrorRaises ==
    ( /\ Downloaded
      /\ \E i \in 1..Len(gr_document.lines) :
            /\ i <= Len(originals)
            /\ gr_document.lines[i].json
            /\ gr_document.lines[i].error )
    => /\ gr_pc = "done"
       /\ gr_outcome = "raised"
       /\ gr_value = NoValue
       /\ gr_error.type \in {"RuntimeError", "JSONDecodeError", "KeyError"}
       /\ ( \A j \in 1..Len(gr_document.lines) :
               j <= Len(originals) /\ ~gr_document.lines[j].error => GoodLine(j) )
          => gr_error = [type |-> "RuntimeError", msg |-> "Batch request failed",
                         carries |-> "line-error"]

\* A call raised on the error of the second line, after a first line that
\* was a good result.
C13_Witness ==
    /\ Downloaded
    /\ Len(originals) = 2
    /\ Len(gr_document.lines) = 2
    /\ GoodLine(1)
    /\ gr_document.lines[2].error
    /\ gr_outcome = "raised"
    /\ gr_error.msg = "Batch request failed"
    /\ gr_value = NoValue

(***************************************************************************)
(* Properties of infer_batch and of the other public operations.           *)
(***************************************************************************)
\* The positions of the requests the operation sent to `url`.
SentTo(url) == { k \in 1..Len(op.requests) : op.requests[k].url = url }

\* C14: in infer_batch the job is created only after the upload succeeded,
\* with exactly the file id that the upload's response carried; after a
\* failed upload no job-creation request is sent; and a job id is returned
\* only when both requests came back with 200, the id of the second one.
C14_UploadThenCreate ==
    op.name = "infer_batch" =>
      /\ \A k \in SentTo("/batches") :
            /\ k = 2
            /\ op.requests[1].url = "/files"
            /\ op.responses # <<>>
            /\ op.responses[1].status = 200
            /\ op.requests[k].payload.input_file_id = op.responses[1].id
      /\ ( op.responses # <<>> /\ op.responses[1].status # 200 ) =>
            /\ SentTo("/batches") = {}
            /\ op.outcome = "raised"
      /\ ( op.outcome = "raised" /\ op.responses = <<>> ) => op.requests = <<>>
      /\ op.outcome = "returned" =>
            /\ Len(op.responses) = 2
            /\ op.responses[1].status = 200
            /\ op.responses[2].status = 200
            /\ op.value = [id |-> op.responses[2].id]

\* infer_batch returned a job id after an upload that was given the second
\* file id.
C14_Witness ==
    /\ op.name = "infer_batch"
    /\ op.outcome = "returned"
    /\ op.responses[1].id = "file-2"
    /\ op.requests[2].payload.input_file_id = "file-2"
    /\ op.value = [id |-> "batch-1"]

\* C15: the list _create_batch builds, and the document it uploads, holds
\* one request per conversation, in the order of the conversations: the
\* request at position p carries the custom_id made from p (counted from
\* 0), the fixed method and endpoint, and a body with one turn per message
\* of conversation p, of the same roles; the custom_ids differ pairwise.
C15_OneRequestPerConversation ==
    batch_requests # NoValue =>
      LET requests == batch_requests.list
      IN  /\ Len(requests) = Len(cb_conversations)
          /\ \A p \in 1..Len(requests) :
                /\ requests[p].custom_id = [prefix |-> "request-", index |-> p - 1]
                /\ requests[p].method = "POST"
                /\ requests[p].url = "/v1/chat/completions"
                /\ requests[p].body.model = "model"
                /\ Len(requests[p].body.messages) = Len(cb_conversations[p].messages)
                /\ \A j \in 1..Len(cb_conversations[p].messages) :
                      LET turn == requests[p].body.messages[j]
                          message == cb_conversations[p].messages[j]
                      IN  /\ turn.role = message.role
                          /\ message.type = "text" =>
                                turn.content = <<[type |-> "text",
                                                  text |-> message.content]>>
          /\ \A p, q \in 1..Len(requests) :
                p # q => requests[p].custom_id # requests[q].custom_id
          /\ \A k \in SentTo("/files") : op.requests[k].payload.file = requests

\* infer_batch uploaded a document of two requests made from two different
\* conversations.
C15_Witness ==
    /\ op.name = "infer_batch"
    /\ batch_requests # NoValue
    /\ Len(batch_requests.list) = 2
    /\ Len(cb_conversations[1].messages) # Len(cb_conversations[2].messages)
    /\ SentTo("/files") = {1}
    /\ batch_requests.list[2].custom_id.index = 1

\* The number of maximal runs of messages of one role.
RoleRuns(messages) ==
    Cardinality({ i \in 1..Len(messages) :
                    i = 1 \/ messages[i].role # messages[i - 1].role })

\* C16: every body of the list _create_batch builds has one turn per
\* maximal run of same-role messages of its conversation.
C16_BodiesGrouped ==
    batch_requests # NoValue =>
      \A p \in 1..Len(batch_requests.list) :
          Len(batch_requests.list[p].body.messages)
              = RoleRuns(cb_conversations[p].messages)

\* C17: no batch or file-store operation sends a request twice, and a
\* response that is not a 200 ends it: the operation raises at once, with
\* the response's body when there was a response, and sends nothing more.
C17_NoRetry ==
    /\ \A i, j \in 1..Len(op.requests) : i # j => op.requests[i] # op.requests[j]
    /\ Len(op.requests) <= (IF op.name = "infer_batch" THEN 2 ELSE 1)
    /\ Len(op.responses) <= Len(op.requests)
    /\ \A k \in 1..Len(op.responses) :
          op.responses[k].status # 200 =>
             /\ k = Len(op.responses)
             /\ k = Len(op.requests)
             /\ op.pc = "done"
             /\ op.outcome = "raised"
             /\ op.responses[k].status = 500 => op.error.carries = FailureBody
    /\ \A i, j \in 1..Len(gr_requests) : i # j => gr_requests[i] # gr_requests[j]
    /\ Len(gr_requests) <= 2
    /\ Len(gr_responses) <= Len(gr_requests)
    /\ \A k \in 1..Len(gr_responses) :
          gr_responses[k] # 200 =>
             /\ k = Len(gr_responses)
             /\ k = Len(gr_requests)
             /\ gr_pc = "done"
             /\ gr_outcome = "raised"
             /\ gr_error.carries = FailureBody

\* delete_file raised on a 500 response to its only request.
C17_Witness ==
    /\ op.name = "delete_file"
    /\ Len(op.requests) = 1
    /\ op.responses = <<[status |-> 500, id |-> ""]>>
    /\ op.outcome = "raised"
    /\ op.error = [type |-> "RuntimeError", msg |-> "Failed to delete file",
                   carries |-> FailureBody]

\* C18: once infer_batch is over, whether it returned or raised, the
\* temporary file of its upload does not exist.
C18_NoTemporaryFileLeft ==
    ( op.name = "infer_batch" /\ op.pc = "done" ) => tmp_file # "exists"

\* C19: a public operation called without remote_params raises the
\* ValueError of its guard and has sent no request: none of its own, none
\* of get_batch_results, no upload and no temporary file.
C19_GuardBeforeAnyRequest ==
    ( op.name # "none" /\ ~op.params ) =>
       /\ op.name \in PublicOperations
       /\ op.pc = "done"
       /\ op.outcome = "raised"
       /\ op.error = [type |-> "ValueError",
                      msg |-> "Remote params must be provided", carries |-> ""]
       /\ op.requests = <<>>
       /\ op.responses = <<>>
       /\ gr_pc = "idle"
       /\ gr_requests = <<>>
       /\ batch_requests = NoValue
       /\ tmp_file = "none"

\* get_file_content was called without remote_params and raised.
C19_Witness ==
    /\ op.name = "get_file_content"
    /\ ~op.params
    /\ op.outcome = "raised"
    /\ op.error.type = "ValueError"
    /\ op.requests = <<>>

(***************************************************************************)
(* The online path once more: failed attempts.                             *)
(***************************************************************************)
\* C20: a unit whose last attempt came back with a non-success status while
\* attempts were left takes its politeness sleep and goes on to the next
\* attempt, whatever the body of that response was: it does not raise.
C20_FailureAlwaysRetried ==
    \A u \in Units :
        ( /\ statuses[u] # <<>>
          /\ Len(statuses[u]) = attempts[u]
          /\ statuses[u][Len(statuses[u])] \notin {0, 200}
          /\ attempts[u] < max_retries + 1 )
        => pc[u] \in {"sleepFail", "post"}

\* The status the last attempt of unit u came back with, in the next state.
LastStatusAfter(u) == statuses'[u][Len(statuses'[u])]

\* C21: every step of a unit keeps the order attempt, sleep, next thing. A
\* response with a non-success status sends the unit to its politeness
\* sleep, with nothing decoded and nothing written to the scratch file; a
\* unit that goes on after a response is in a sleep, after a success with
\* its result decoded and appended to the scratch file exactly when an
\* output path is set; a further attempt starts only out of the sleep after
\* a failure, the retries-exhausted error is raised only out of that sleep,
\* and the unit returns only out of the sleep after a success.
C21_SleepAfterEveryAttempt ==
    [][ \A u \in Units :
          /\ ( /\ pc[u] = "inflight"
               /\ pc'[u] # "inflight"
               /\ LastStatusAfter(u) \notin {0, 200} )
             => /\ pc'[u] = "sleepFail"
                /\ result'[u] = NoValue
                /\ scratch' = scratch
          /\ ( pc[u] = "inflight" /\ pc'[u] \notin {"inflight", "raised"} )
             => /\ pc'[u] \in {"sleepOK", "sleepFail"}
                /\ pc'[u] = "sleepOK" =>
                      /\ result'[u] # NoValue
                      /\ scratch' = IF output_path
                                    THEN Append(scratch, result'[u])
                                    ELSE scratch
          /\ ( pc[u] # "post" /\ pc'[u] = "post" )
             => pc[u] \in {"waiting", "sleepFail"}
          /\ ( err[u] # "RetriesExhausted" /\ err'[u] = "RetriesExhausted" )
             => pc[u] = "sleepFail"
          /\ ( pc[u] # "done" /\ pc'[u] = "done" ) => pc[u] = "sleepOK"
      ]_vars

(***************************************************************************)
(* Properties of get_batch_results: the order of its checks.               *)
(***************************************************************************)
\* The failure branch of the fetched status payload.
FetchedFailure ==
    gr_fetched.failed_requests > 0 /\ gr_fetched.error_file_id # NoFileId

\* C22: the checks on the fetched status run in the order status, failed
\* requests with an error file, output file. A job not completed raises on
\* its status whatever else the payload holds; a completed job with the
\* failure branch taken never downloads the output file and never raises
\* for a missing output file; a completed job with the failure branch not
\* taken and no output file id raises with the status request as its only
\* request; and the output file is requested only when the job is completed,
\* the failure branch is not taken and the output file id is there.
C22_ChecksInOrder ==
    ( gr_fetched # NoValue /\ gr_fetched.status \in BatchStatus ) =>
       /\ gr_fetched.status # "completed" =>
             /\ gr_requests = <<"GET /batches/id">>
             /\ gr_outcome = "raised"
             /\ gr_error.msg = "Batch is not completed"
       /\ ( gr_fetched.status = "completed" /\ FetchedFailure ) =>
             /\ gr_requests = <<"GET /batches/id", "GET /files/file-err/content">>
             /\ gr_error.msg # "No output file available"
             /\ gr_document = NoValue
       /\ ( /\ gr_fetched.status = "completed"
            /\ ~FetchedFailure
            /\ gr_fetched.output_file_id = NoFileId ) =>
             /\ gr_requests = <<"GET /batches/id">>
             /\ gr_pc = "done"
             /\ gr_outcome = "raised"
             /\ gr_error = [type |-> "RuntimeError",
                            msg |-> "No output file available", carries |-> ""]
             /\ gr_document = NoValue
             /\ gr_value = NoValue
       /\ ( \E k \in 1..Len(gr_requests) :
               gr_requests[k] = "GET /files/file-out/content" ) =>
             /\ gr_requests = <<"GET /batches/id", "GET /files/file-out/content">>
             /\ gr_fetched.status = "completed"
             /\ ~FetchedFailure
             /\ gr_fetched.output_file_id # NoFileId

\* A completed job with failed requests but neither an error file nor an
\* output file: the call raised for the missing output file after its one
\* status request.
C22_Witness ==
    /\ gr_fetched # NoValue
    /\ gr_fetched.status = "completed"
    /\ gr_fetched.failed_requests > 0
    /\ gr_fetched.error_file_id = NoFileId
    /\ gr_fetched.output_file_id = NoFileId
    /\ gr_requests = <<"GET /batches/id">>
    /\ gr_error.msg = "No output file available"

(***************************************************************************)
(* Properties of the engine's effect on the remote jobs.                   *)
(***************************************************************************)
\* The requests get_batch_results can send.
ReadRequests ==
    {"GET /batches/id", "GET /files/file-err/content",
     "GET /files/file-out/content"}

\* C23: get_batch_status, list_batches and get_batch_results send GET
\* requests only; a step in which the remote job changes is a step of the
\* remote service, in which no operation of the engine moves; and the set
\* of remote jobs changes only in infer_batch, on the response to its POST
\* /batches.
C23_EngineOnlyObserves ==
    [][ /\ op.name \in {"get_batch_status", "list_batches", "get_batch_results"} =>
              /\ \A k \in 1..Len(op.requests) : op.requests[k].method = "GET"
              /\ \A k \in 1..Len(gr_requests) : gr_requests[k] \in ReadRequests
        /\ job' # job =>
              /\ op' = op
              /\ gr_pc' = gr_pc
              /\ gr_requests' = gr_requests
              /\ remote_jobs' = remote_jobs
        /\ op' # op => job' = job
        /\ <<gr_pc, gr_requests, gr_responses>>' # <<gr_pc, gr_requests, gr_responses>>
              => job' = job
        /\ remote_jobs' # remote_jobs =>
              /\ op.name = "infer_batch"
              /\ SentTo("/batches") = {2}
              /\ op'.outcome = "returned"
      ]_vars

\* get_batch_status returned the status the remote job is in, a status the
\* job reached on its own.
C23_Witness ==
    /\ op.name = "get_batch_status"
    /\ op.outcome = "returned"
    /\ op.requests[1].method = "GET"
    /\ op.value.status = "completed"
    /\ job.status = "completed"
    /\ remote_jobs = {}

(***************************************************************************)
(* Properties of the encoder and the decoder.                              *)
(***************************************************************************)
\* C24: with group_adjacent_same_role_turns set, the encoder emits one turn
\* per maximal run of adjacent messages of one role, in the order of the
\* runs and with the run's role; the content of the turn of a run of one
\* text message is that message's content as a bare string, and the content
\* of every other turn is a list with one content unit per message of the
\* run, in the order of the messages.
C24_GroupedScan ==
    ( /\ codec.fn = "_get_list_of_message_json_dicts"
      /\ codec.group_adjacent_same_role_turns )
    => LET messages == codec.messages
           runs == Cardinality(RunStarts(messages))
       IN  /\ "list" \in DOMAIN codec.out
           /\ Len(codec.out.list) = runs
           /\ \A k \in 1..runs :
                 LET first == RunStart(messages, k)
                     last == RunLast(messages, k)
                     turn == codec.out.list[k]
                 IN  /\ turn.role = messages[first].role
                     /\ \A i \in first..last : messages[i].role = turn.role
                     /\ IF first = last /\ messages[first].type = "text"
                        THEN turn.content = [string |-> messages[first].content]
                        ELSE /\ DOMAIN turn.content = {"list"}
                             /\ Len(turn.content.list) = last - first + 1
                             /\ \A i \in first..last :
                                   turn.content.list[i - first + 1]
                                       = GetContentForMessage(messages[i])

\* The roles user, user, assistant gave two turns, the first with a list of
\* two content units, the second with a bare string.
C24_Witness ==
    /\ codec.fn = "_get_list_of_message_json_dicts"
    /\ codec.group_adjacent_same_role_turns
    /\ Len(codec.messages) = 3
    /\ codec.messages[1].role = "user"
    /\ codec.messages[2].role = "user"
    /\ codec.messages[3] = TextMessage("assistant", Text("q"))
    /\ Len(codec.out.list) = 2
    /\ Len(codec.out.list[1].content.list) = 2
    /\ codec.out.list[2].content = [string |-> Text("q")]

ObjectTexts ==
    { [tokens |-> <<"{", "}">>, map |-> <<>>],
      [tokens |-> <<"{", "type", ":", "object", "}">>, map |-> [type |-> "object"]],
      [tokens |-> <<"{", "type", ":", "object", ",", "title", ":", "T", "}">>,
       map |-> [type |-> "object", title |-> "T"]],
      [tokens |-> <<"{", "type", ":", "object", ",", "type", ":", "array", "}">>,
       map |-> [type |-> "array"]] }

\* The response_format of a request, for a schema that is the mapping map.
ResponseFormatFor(map) ==
    [type |-> "json_schema",
     json_schema |-> [name |-> "Response",
                      schema |-> [kind |-> "dict", map |-> map]]]

\* C28: in a request built with guided decoding, a schema given as a mapping
\* is put under response_format with the name "Response"; a schema given as
\* the JSON text of a mapping gives the response_format of that mapping; a
\* schema of another type (a number) and a guided decoding without a schema
\* make the call raise ValueError, with no request built.
C28_SchemaResolution ==
    ( /\ codec.fn = "_convert_conversation_to_api_input"
      /\ codec.guided_decoding # NoValue )
    => LET json_schema == codec.guided_decoding.json
       IN  /\ json_schema = NoValue => codec.out = [raises |-> "ValueError"]
           /\ json_schema # NoValue =>
                 /\ json_schema.kind = "int" => codec.out = [raises |-> "ValueError"]
                 /\ json_schema.kind = "dict" =>
                       /\ "raises" \notin DOMAIN codec.out
                       /\ codec.out.response_format
                             = ResponseFormatFor(json_schema.map)
                 /\ json_schema.kind = "str" =>
                       \A text \in ObjectTexts :
                          json_schema.tokens = text.tokens =>
                             /\ "raises" \notin DOMAIN codec.out
                             /\ codec.out.response_format
                                   = ResponseFormatFor(text.map)

\* A schema given as the text {"type": "object"} came out as the
\* response_format of the mapping with that one member.
C28_Witness ==
    /\ codec.fn = "_convert_conversation_to_api_input"
    /\ codec.guided_decoding = [json |-> [kind |-> "str",
                                          tokens |-> <<"{", "type", ":", "object", "}">>]]
    /\ Len(codec.messages) = 1
    /\ codec.out.response_format.json_schema
          = [name |-> "Response", schema |-> [kind |-> "dict",
                                              map |-> [type |-> "object"]]]

\* C26: for a response with a first completion the decoder returns a
\* conversation with the original's id and metadata whose messages are the
\* original's messages, in their order, followed by one message of type
\* text with the role and the content of the first completion's message;
\* the original's message list is as it was; and for a response without a
\* first completion the decoder raises and returns nothing.
C26_DecodeAppendsOne ==
    codec.fn = "_convert_api_output_to_conversation" =>
       LET n == Len(codec.original.messages)
       IN  /\ codec.original_after = codec.original
           /\ Len(codec.response.choices) >= 1 =>
                 /\ "raises" \notin DOMAIN codec.out
                 /\ codec.out.conversation_id = codec.original.conversation_id
                 /\ codec.out.metadata = codec.original.metadata
                 /\ Len(codec.out.messages) = n + 1
                 /\ SubSeq(codec.out.messages, 1, n) = codec.original.messages
                 /\ codec.out.messages[n + 1].type = "text"
                 /\ codec.out.messages[n + 1].role
                       = codec.response.choices[1].message.role
                 /\ codec.out.messages[n + 1].content
                       = codec.response.choices[1].message.content
           /\ Len(codec.response.choices) = 0 =>
                 codec.out = [raises |-> "KeyError"]

\* A response with two completions was decoded onto an original of two
\* messages: three messages, the last one the first completion.
C26_Witness ==
    /\ codec.fn = "_convert_api_output_to_conversation"
    /\ codec.response = TwoCompletions
    /\ Len(codec.original.messages) = 2
    /\ Len(codec.out.messages) = 3
    /\ codec.out.messages[3].content = Text("first")

\* C27: every image message is encoded as a content unit of type image_url
\* whose image_url entry is a mapping with the one key url: the base64 data
\* URI for a message that holds its bytes, the message's URL as it is for
\* an image-url message without bytes.
C27_ImageContentUnit ==
    ( codec.fn = "_get_content_for_message" /\ IsImage(codec.message) ) =>
       /\ codec.out.type = "image_url"
       /\ DOMAIN codec.out.image_url = {"url"}
       /\ codec.message.binary =>
             codec.out.image_url.url = [scheme |-> "data",
                                        payload |-> codec.message.content]
       /\ ( codec.message.type = "image_url" /\ ~codec.message.binary ) =>
             codec.out.image_url.url = codec.message.content

(***************************************************************************)
(* Properties of list_files.                                               *)
(***************************************************************************)
\* C29: list_files, when it returns, reports has_more true exactly when a
\* limit was given and the number of files listed equals it; without a
\* limit has_more is false.
C29_HasMoreLocal ==
    ( op.name = "list_files" /\ op.outcome = "returned" ) =>
       /\ op.limit # 0 => ( op.value.has_more <=> Len(op.value.files) = op.limit )
       /\ op.limit = 0 => ~op.value.has_more

\* list_files with limit 2 returned two files and has_more.
C29_Witness ==
    /\ op.name = "list_files"
    /\ op.outcome = "returned"
    /\ op.limit = 2
    /\ Len(op.value.files) = 2
    /\ op.value.has_more

(***************************************************************************)
(* Progress of the online path, under FairOnline.                          *)
(***************************************************************************)
\* infer_online is over.
RunEnded == run \in {"returned", "failed"}

\* C30, as claimed: every unit is admitted to the gate at some time, every
\* unit in the gate leaves it at some time, and infer_online ends.
C30_EveryUnitAdmitted ==
    /\ \A u \in 1..MaxConvs : <>(u \in Units => pc[u] # "waiting")
    /\ \A u \in 1..MaxConvs : (u \in InGate) ~> (u \notin InGate)
    /\ <>RunEnded

\* C30: infer_online ends, by returning or by raising; and until it has
\* raised, every unit is admitted to the gate at some time and every unit
\* in the gate leaves it at some time, giving its permit back. (When
\* infer_online raises, the units still waiting or in the gate are
\* cancelled where they are.)
C30_ProgressUntilFailure ==
    /\ <>RunEnded
    /\ \A u \in 1..MaxConvs :
          <>(u \in Units => (pc[u] # "waiting" \/ run = "failed"))
    /\ \A u \in 1..MaxConvs :
          (u \in InGate) ~> (u \notin InGate \/ run = "failed")
    /\ [](run = "returned" => \A u \in Units : pc[u] = "done")
    /\ [](run = "returned" => semaphore = num_workers)

\* infer_online returned for more conversations than num_workers: every
\* unit went through the gate and all permits are back.
C30_Witness ==
    /\ run = "returned"
    /\ Len(input) > num_workers
    /\ \A u \in Units : pc[u] = "done"
    /\ semaphore = num_workers

(***************************************************************************)
(* Transport failures on the online path, under FairOnline.                *)
(***************************************************************************)
\* Unit u's HTTP call came back with no response: the connection failed or
\* timed out.
TransportFailed(u) ==
    \E i \in 1..Len(statuses[u]) : statuses[u][i] = 0

\* C31: only an attempt that ended with a non-success HTTP status is
\* followed by another attempt. An attempt whose HTTP call raised a
\* connection error or a timeout is the unit's last one even when the retry
\* range is not used up: the unit is left by that exception, infer_online
\* never returns a list, and it ends by raising.
C31_TransportFailureNotRetried ==
    /\ [](\A u \in Units :
            /\ \A i \in 1..Len(statuses[u]) :
                  statuses[u][i] = 0 =>
                      /\ i = Len(statuses[u])
                      /\ attempts[u] = i
                      /\ pc[u] = "raised"
                      /\ err[u] = "ClientError"
            /\ \A i \in 1..(Len(statuses[u]) - 1) :
                  statuses[u][i] \notin {0, 200}
            /\ TransportFailed(u) => run # "returned")
    /\ \A u \in 1..MaxConvs :
          (u \in Units /\ TransportFailed(u)) ~> (run = "failed")

\* The first attempt of a unit failed in transport with retries left, and
\* infer_online raised that error.
C31_Witness ==
    /\ run = "failed"
    /\ runErr = "ClientError"
    /\ \E u \in Units :
          /\ statuses[u] = <<0>>
          /\ attempts[u] < RetryRange
          /\ pc[u] = "raised"

(***************************************************************************)
(* Properties of the job status that get_batch_status, get_batch_results   *)
(* and list_batches report.                                                *)
(***************************************************************************)
\* The six statuses get_batch_status can report.
ValidatedStatuses ==
    {"validating", "in_progress", "completed", "failed", "expired", "cancelled"}

\* The single-request operation `name` gets its response, a 200, in this
\* step.
Answered200(name) ==
    /\ op.name = name
    /\ op.pc = "wait"
    /\ op'.pc = "done"
    /\ op'.responses[Len(op'.responses)].status = 200

\* C32: get_batch_status, answered with a 200, returns exactly when the
\* job's remote status is one of validating, in_progress, completed, failed,
\* expired, cancelled, and then reports that status; for any other status
\* (finalizing, cancelling) it raises ValueError, and get_batch_results,
\* having fetched such a status, raises it too without another request.
\* list_batches returns the remote status string as it is, one of the six
\* or not.
C32_StatusValidated ==
    /\ [][ /\ Answered200("get_batch_status") =>
                IF job.status \in ValidatedStatuses
                THEN /\ op'.outcome = "returned"
                     /\ op'.value.status = job.status
                ELSE /\ op'.outcome = "raised"
                     /\ op'.error.type = "ValueError"
           /\ Answered200("list_batches") =>
                /\ op'.outcome = "returned"
                /\ \A i \in 1..Len(op'.value.batches) :
                      op'.value.batches[i] = job.status ]_vars
    /\ []( ( op.name = "get_batch_status" /\ op.outcome = "returned" ) =>
              op.value.status \in ValidatedStatuses )
    /\ []( ( gr_fetched # NoValue /\ gr_fetched.status \notin ValidatedStatuses ) =>
              /\ gr_outcome = "raised"
              /\ gr_error.type = "ValueError"
              /\ Len(gr_requests) = 1 )

\* get_batch_status raised ValueError on a job that is finalizing or
\* cancelling.
C32_Witness ==
    /\ op.name = "get_batch_status"
    /\ op.outcome = "raised"
    /\ op.error.type = "ValueError"
    /\ op.responses # <<>>
    /\ op.responses[Len(op.responses)].status = 200
    /\ job.status \in {"finalizing", "cancelling"}

====
